---- MODULE Spec2Model ----
(***************************************************************************)
(* The persistence schema of moneytracker/models.py as a state machine.    *)
(* The state is the content of the six tables the models declare and of    *)
(* the table of the accounts the profiles wrap; the actions are the        *)
(* object-relational mapper's create / save / delete calls on each model,  *)
(* with the behaviour the field declarations select: on_delete=CASCADE,    *)
(* UniqueConstraint, choices, auto_now, DecimalField.                      *)
(***************************************************************************)
EXTENDS Integers, Sequences, FiniteSets, TLC

(* ------------------------------ bounds -------------------------------- *)
\* Rows the create calls of a run insert, all tables together, on top of
\* the rows the run starts with.
MaxRows == 3
\* Holdings, and report settings, the create calls of a run insert.
MaxHoldings == 2
MaxSettings == 2
\* Calendar days the clock runs through.
MaxDay == 2
\* Longest coefficient, and the range of exponents (-MaxScale .. MaxExp), of
\* the quantities handed to the decimal column.
MaxCoefLen == 19
MaxScale == 9
MaxExp == 3
\* Saves and validations in flight, between two of their statements, at one
\* time; and deletes in flight, between their reads and their transaction.
MaxPending == 1
MaxDeleting == 1

VARIABLES
    auth_user,          \* table 'auth_user'         (django.contrib.auth User)
    custom_users,       \* table 'custom_users'      (CustomUser)
    assets,             \* table 'assets'            (Asset)
    portfolios,         \* table 'portfolios'        (Portfolio)
    portfolios_assets,  \* table 'portfolios_assets' (PortfolioAsset)
    performances,       \* table 'performances'      (Performance)
    daily_asset_info,   \* table 'daily_asset_info'  (DailyAssetInfo)
    seq,                \* next implicit primary key of each table
    made,               \* rows the create calls of the run have inserted
    today,              \* the current date
    last,               \* the last call and how it ended
    probe,              \* a caller's instance of a holding: the quantity it
                        \* was given, the row it was saved as, the quantity a
                        \* reload gave, and the backend of its connection
    pending             \* the calls in flight between two of their statements

db == <<auth_user, custom_users, assets, portfolios, portfolios_assets, performances,
        daily_asset_info>>

vars == <<auth_user, custom_users, assets, portfolios, portfolios_assets, performances,
          daily_asset_info, seq, made, today, last, probe, pending>>

(* ------------------------- declared constants ------------------------- *)
\* Performance.WEEKDAY_CHOICES
WEEKDAY_CHOICES ==
    {"Sunday", "Monday", "Tuesday", "Wednesday", "Thursday", "Friday", "Saturday"}

\* Performance.PERIODICITY_CHOICES
PERIODICITY_CHOICES == {"Daily", "Weekly", "Monthly", "Biweekly"}

\* Field defaults.
DefaultSuscribed == TRUE
DefaultDay == "Monday"
DefaultPeriodicity == "Weekly"

(* ------------------------------ helpers ------------------------------- *)
Ids(rows) == {r.id : r \in rows}

Row(rows, i) == CHOOSE r \in rows : r.id = i

\* CustomUser.user = OneToOneField(User): the column is unique, an account
\* has at most one profile.
unique_custom_user(rows) ==
    \A r1, r2 \in rows : r1.user = r2.user => r1 = r2

\* The table without the constraint on (portfolio, asset).
no_unique_portfolio_asset(rows) == TRUE

\* UniqueConstraint(fields=['portfolio', 'asset'], name='unique_portfolio_asset')
unique_portfolio_asset(rows) ==
    \A r1, r2 \in rows :
        (r1.portfolio = r2.portfolio /\ r1.asset = r2.asset) => r1.id = r2.id

\* The constraint declared on (user, periodicity) instead.
unique_user_periodicity(rows) ==
    \A r1, r2 \in rows :
        (r1.user = r2.user /\ r1.periodicity = r2.periodicity) => r1.id = r2.id

\* UniqueConstraint(fields=['user', 'days_to_send_email'], name='unique_performance')
unique_performance(rows) ==
    \A r1, r2 \in rows :
        (r1.user = r2.user /\ r1.days_to_send_email = r2.days_to_send_email)
            => r1.id = r2.id

(* ------------------- decimal.Decimal, as Python has it ---------------- *)
\* A Decimal is (sign, coefficient digits, exponent): its value is
\* (-1)^sign * digits * 10^exp.  The coefficient has no leading zero
\* unless it is <<0>>.
Dec(s, ds, e) == [sign |-> s, digits |-> ds, exp |-> e]

NoDecimal == Dec(0, <<>>, 0)          \* no value (None)
InvalidOperation == Dec(2, <<>>, 0)   \* decimal.InvalidOperation was raised

IsNumber(d) == d.sign \in {0, 1} /\ Len(d.digits) > 0

Zeros(n) == [i \in 1..n |-> 0]

AllZero(ds) == \A i \in 1..Len(ds) : ds[i] = 0

IsZero(d) == AllZero(d.digits)

RECURSIVE StripTrailing(_)
StripTrailing(ds) ==
    IF Len(ds) > 1 /\ ds[Len(ds)] = 0 THEN StripTrailing(SubSeq(ds, 1, Len(ds) - 1))
    ELSE ds

\* The coefficient plus one, with carry.
RECURSIVE Incr(_)
Incr(ds) ==
    IF Len(ds) = 0 THEN <<1>>
    ELSE IF ds[Len(ds)] < 9 THEN [ds EXCEPT ![Len(ds)] = @ + 1]
    ELSE Incr(SubSeq(ds, 1, Len(ds) - 1)) \o <<0>>

\* decimal.ROUND_HALF_EVEN: whether dropping `tail` after `head` rounds up.
RoundHalfEven(head, tail) ==
    LET exact_half == tail[1] = 5 /\ AllZero(SubSeq(tail, 2, Len(tail)))
    IN  IF exact_half /\ (Len(head) = 0 \/ head[Len(head)] % 2 = 0) THEN FALSE
        ELSE tail[1] >= 5

\* Decimal._rescale(exp, ROUND_HALF_EVEN): the value at exponent e.
Rescale(d, e) ==
    IF d.exp >= e THEN Dec(d.sign, d.digits \o Zeros(d.exp - e), e)
    ELSE LET keep == Len(d.digits) + d.exp - e
         IN  IF keep < 0 THEN Dec(d.sign, <<0>>, e)
             ELSE LET head == SubSeq(d.digits, 1, keep)
                      tail == SubSeq(d.digits, keep + 1, Len(d.digits))
                      coeff == IF keep = 0 THEN <<0>> ELSE head
                  IN  Dec(d.sign,
                          IF RoundHalfEven(head, tail)
                          THEN (IF keep = 0 THEN <<1>> ELSE Incr(head))
                          ELSE coeff,
                          e)

\* Decimal.quantize(Decimal(1).scaleb(e), context) with context.prec = prec.
Quantize(d, e, prec) ==
    IF ~IsNumber(d) THEN InvalidOperation
    ELSE IF IsZero(d) THEN Dec(d.sign, <<0>>, e)
    ELSE IF Len(d.digits) + d.exp - e > prec THEN InvalidOperation
    ELSE LET ans == Rescale(d, e)
         IN  IF Len(ans.digits) > prec THEN InvalidOperation ELSE ans

RECURSIVE ToInt(_)
ToInt(ds) ==
    IF Len(ds) = 0 THEN 0 ELSE 10 * ToInt(SubSeq(ds, 1, Len(ds) - 1)) + ds[Len(ds)]

RECURSIVE Pow10(_)
Pow10(n) == IF n = 0 THEN 1 ELSE 10 * Pow10(n - 1)

\* The coefficient cut to its first p digits, as it is or plus one.
CutTo(d, p, up) ==
    LET head == SubSeq(d.digits, 1, p)
        c == IF up THEN Incr(head) ELSE head
        e == d.exp + Len(d.digits) - p
    IN  IF Len(c) > p THEN Dec(d.sign, SubSeq(c, 1, p), e + 1) ELSE Dec(d.sign, c, e)

\* Context(prec=p).create_decimal_from_float(float(d)): the decimals the
\* 8-byte float nearest to d can round to at p digits.  A float carries d to
\* within 1.2 units of its 16th digit or better, so the digits dropped
\* decide the direction unless they lie that close to one half; there the
\* float's binary error decides, and both neighbours are possible.
FromFloat(d, p) ==
    IF ~IsNumber(d) \/ Len(d.digits) <= p THEN {d}
    ELSE LET k == Len(d.digits) - p
             t == ToInt(SubSeq(d.digits, p + 1, Len(d.digits)))
             half == 5 * Pow10(k - 1)
             margin == 12 * Pow10(k - 1)
         IN  IF 10 * (t - half) > margin THEN {CutTo(d, p, TRUE)}
             ELSE IF 10 * (half - t) > margin THEN {CutTo(d, p, FALSE)}
             ELSE {CutTo(d, p, FALSE), CutTo(d, p, TRUE)}

\* The value in lowest terms; two Decimals are == in Python iff these agree.
Normalize(d) ==
    IF IsZero(d) THEN Dec(0, <<0>>, 0)
    ELSE LET ds == StripTrailing(d.digits)
         IN  Dec(d.sign, ds, d.exp + Len(d.digits) - Len(ds))

DecEq(a, b) == IsNumber(a) /\ IsNumber(b) /\ Normalize(a) = Normalize(b)

\* Digits after / before the decimal point, and significant digits, of the value.
FracDigits(d) == IF Normalize(d).exp < 0 THEN 0 - Normalize(d).exp ELSE 0
IntDigits(d) ==
    LET n == Normalize(d)
    IN  IF IsZero(d) \/ Len(n.digits) + n.exp < 0 THEN 0 ELSE Len(n.digits) + n.exp
SigDigits(d) == IF IsZero(d) THEN 0 ELSE Len(Normalize(d).digits)

(* ------------- PortfolioAsset.quantity: DecimalField(18, 8) ----------- *)
max_digits == 18
decimal_places == 8
\* The database backends: NUMERIC(18, 8) columns (PostgreSQL, MySQL, Oracle)
\* hold the decimal itself; SQLite holds it as an 8-byte float.
Backends == {"numeric", "sqlite"}

\* The quantity formatted with the two decimal places of a price.
format_number_price(value) == Quantize(value, -2, max_digits)

\* DecimalField.get_db_prep_save -> format_number(value, max_digits, decimal_places)
format_number(value) == Quantize(value, 0 - decimal_places, max_digits)

\* What a read of the column can hand back for a stored value.  SQLite
\* keeps the number as an integer or an 8-byte float (a zero loses its
\* sign); the backend's converter, Context(prec=15).create_decimal_from_float,
\* rounds the float to 15 digits and quantizes the result to the field's
\* scale in a context of max_digits digits.
from_db_value(engine, stored) ==
    IF engine = "sqlite"
    THEN LET held == IF IsZero(stored) THEN Dec(0, <<0>>, stored.exp) ELSE stored
         IN  {Quantize(f, 0 - decimal_places, max_digits) : f \in FromFloat(held, 15)}
    ELSE {stored}

(* ------------------------------ inputs -------------------------------- *)
\* The accounts of django.contrib.auth a caller may name as a profile's
\* user, or holds an instance of: registered once, deleted since or not.
Accounts == {1, 2}

\* Keys a caller may name as a parent: every key the table's sequence has
\* handed out (the row may be deleted since) and the next one, never handed
\* out.
UserKeys == 1..seq.custom_users
AssetKeys == 1..seq.assets
PortfolioKeys == 1..seq.portfolios

\* Keys of the instances callers hold: read from the table at some time, so
\* handed out by the sequence; the row may be deleted since.
HeldUsers == 1..(seq.custom_users - 1)
HeldAssets == 1..(seq.assets - 1)
HeldPortfolios == 1..(seq.portfolios - 1)
HeldHoldings == 1..(seq.portfolios_assets - 1)
HeldPerformances == 1..(seq.performances - 1)
HeldInfos == 1..(seq.daily_asset_info - 1)

Days == 1..MaxDay

\* The (weekday, periodicity) settings of the scenarios: a declared one, one
\* with an undeclared weekday, one with an undeclared periodicity.
SettingInputs ==
    {<<"Monday", "Weekly">>, <<"Funday", "Weekly">>, <<"Tuesday", "Hourly">>}

\* Quantities of the scenarios: 1.5 and 2.0.
Quantities == {Dec(0, <<1, 5>>, -1), Dec(0, <<2, 0>>, -1)}

\* A quantity the column holds, 1.5, and one it cannot hold, 11111111111.
ColumnQuantities ==
    {Dec(0, <<1, 5>>, -1), Dec(0, <<1, 1, 1, 1, 1, 1, 1, 1, 1, 1, 1>>, 0)}

\* Coefficients of n digits: 11..1, 99..9, 10..01, 11..15.
Coefficient(kind, n) ==
    [i \in 1..n |->
        CASE kind = "ones" -> 1
          [] kind = "nines" -> 9
          [] kind = "ends" -> IF i = 1 \/ i = n THEN 1 ELSE 0
          [] OTHER -> IF i = n THEN 5 ELSE 1]

DecimalInputs ==
    {Dec(s, Coefficient(k, n), e) :
        s \in {0, 1}, k \in {"ones", "nines", "ends", "five"},
        n \in 1..MaxCoefLen, e \in (0 - MaxScale)..MaxExp}

\* A call in flight between two of its statements: the instance it works
\* on, for a delete the keys its collector has read, for a validation the
\* fields that have failed.
\*   stage "profiles":  User.delete() has read the account's profile, the
\*                      read of the profile's portfolios is to come;
\*   stage "collected": delete() has collected, its transaction is to come;
\*   stage "cleaned":   full_clean() has run clean_fields(), its uniqueness
\*                      query is to come;
\*   stage "validated": full_clean() has passed, save() is to come;
\*   stage "insert":    save()'s UPDATE matched no row, its INSERT is to come.
InFlight(op, table, stage, row, collected, errors) ==
    [op |-> op, table |-> table, stage |-> stage, row |-> row,
     collected |-> collected, errors |-> errors]

\* The keys a collector has read, per table.
NoneCollected == [custom_users |-> {}, portfolios |-> {}]

\* The deletes in flight, and the saves and validations in flight.
Deleting == {c \in pending : c.stage \in {"profiles", "collected"}}
Writing == pending \ Deleting

\* Rows the run has inserted so far, and the new instances that are being
\* validated and are about to be inserted.
Inserted ==
    made + Cardinality({c \in pending :
                           c.stage \in {"cleaned", "validated"} /\ c.row.id = 0})

\* What Model.delete() returns: the number of rows deleted, per table.
NoneDeleted ==
    [auth_user |-> 0, custom_users |-> 0, assets |-> 0, portfolios |-> 0,
     portfolios_assets |-> 0, performances |-> 0, daily_asset_info |-> 0]

\* A call (or the statement of it that just ran), how it ended, the fields a
\* ValidationError names, and the rows a delete reported.
Call(op, result) ==
    [op |-> op, result |-> result, errors |-> {}, deleted |-> NoneDeleted]

Invalid(op, errors) ==
    [op |-> op, result |-> "ValidationError", errors |-> errors,
     deleted |-> NoneDeleted]

Deleted(op, counts) ==
    [op |-> op, result |-> "ok", errors |-> {}, deleted |-> counts]

(* ------------------------ referential actions ------------------------- *)
\* A foreign key whose delete rule collects nothing (DO_NOTHING).
do_nothing(rows, parents) == {}

\* A foreign key the database does not constrain (db_constraint=False).
unconstrained(h, as) == TRUE

\* CustomUser.user = OneToOneField(User, on_delete=CASCADE): the profiles
\* that go with the deleted accounts.
cascade_custom_user_user(rows, accounts) == {r \in rows : r.user \in accounts}

\* Portfolio.user = ForeignKey(CustomUser, on_delete=CASCADE): the
\* portfolios that go with the deleted users.
cascade_portfolio_user(rows, users) == {r \in rows : r.user \in users}

\* Performance.user = ForeignKey(CustomUser, on_delete=CASCADE)
cascade_performance_user(rows, users) == {r \in rows : r.user \in users}

\* PortfolioAsset.portfolio = ForeignKey(Portfolio, on_delete=CASCADE)
cascade_holding_portfolio(rows, ps) == {r \in rows : r.portfolio \in ps}

\* PortfolioAsset.asset = ForeignKey(Asset, on_delete=CASCADE)
cascade_holding_asset(rows, as) == {r \in rows : r.asset \in as}

\* DailyAssetInfo.asset = ForeignKey(Asset, on_delete=CASCADE)
cascade_info_asset(rows, as) == {r \in rows : r.asset \in as}

\* The foreign-key constraints of the tables (db_constraint is on by default).
fk_custom_user_user(u, accounts) == u.user \in Ids(accounts)
fk_portfolio_user(p, users) == p.user \in Ids(users)
fk_performance_user(p, users) == p.user \in Ids(users)
fk_holding_portfolio(h, ps) == h.portfolio \in Ids(ps)
fk_holding_asset(h, as) == h.asset \in Ids(as)
fk_info_asset(i, as) == i.asset \in Ids(as)

(* ----------------------------- statements ----------------------------- *)
\* The tables as they are, and as a statement would leave them.
Tables ==
    [auth_user |-> auth_user, custom_users |-> custom_users, assets |-> assets,
     portfolios |-> portfolios, portfolios_assets |-> portfolios_assets,
     performances |-> performances, daily_asset_info |-> daily_asset_info]

NoRows ==
    [auth_user |-> {}, custom_users |-> {}, assets |-> {}, portfolios |-> {},
     portfolios_assets |-> {}, performances |-> {}, daily_asset_info |-> {}]

Store(T) ==
    /\ auth_user' = T.auth_user
    /\ custom_users' = T.custom_users
    /\ assets' = T.assets
    /\ portfolios' = T.portfolios
    /\ portfolios_assets' = T.portfolios_assets
    /\ performances' = T.performances
    /\ daily_asset_info' = T.daily_asset_info

\* The declared UniqueConstraints, checked by the statement.
uniques_hold(T) ==
    /\ unique_custom_user(T.custom_users)
    /\ unique_portfolio_asset(T.portfolios_assets)
    /\ unique_performance(T.performances)

\* The foreign-key constraints, checked when the statement or the
\* transaction commits.
foreign_keys_hold(T) ==
    /\ \A r \in T.custom_users : fk_custom_user_user(r, T.auth_user)
    /\ \A r \in T.portfolios : fk_portfolio_user(r, T.custom_users)
    /\ \A r \in T.performances : fk_performance_user(r, T.custom_users)
    /\ \A r \in T.portfolios_assets :
          /\ fk_holding_portfolio(r, T.portfolios)
          /\ fk_holding_asset(r, T.assets)
    /\ \A r \in T.daily_asset_info : fk_info_asset(r, T.assets)

\* A statement, or the statements of one transaction, that would leave the
\* tables as T: the database refuses it with an IntegrityError, the tables
\* as they were, when a constraint would not hold; `done` is what the call
\* gives when it goes through.
Execute(op, T, done) ==
    LET res == IF ~uniques_hold(T) THEN "UniqueViolation"
               ELSE IF ~foreign_keys_hold(T) THEN "ForeignKeyViolation"
               ELSE "ok"
    IN  /\ last' = IF res = "ok" THEN done ELSE Call(op, res)
        /\ IF res = "ok" THEN Store(T) ELSE UNCHANGED db

\* INSERT INTO table (id, ...) VALUES (row)
Insert(op, table, row) ==
    IF row.id \in Ids(Tables[table])
    THEN /\ last' = Call(op, "PrimaryKeyViolation")
         /\ UNCHANGED db
    ELSE Execute(op, [Tables EXCEPT ![table] = @ \cup {row}], Call(op, "ok"))

\* UPDATE table SET ... WHERE id = row.id, for a row that is there
Update(op, table, row) ==
    Execute(op, [Tables EXCEPT ![table] = {r \in @ : r.id # row.id} \cup {row}],
            Call(op, "ok"))

\* The DELETE statements of one delete(), in its transaction: `gone` holds
\* the rows they match, per table.
Delete(op, gone) ==
    Execute(op,
        [auth_user |-> auth_user \ gone.auth_user,
         custom_users |-> custom_users \ gone.custom_users,
         assets |-> assets \ gone.assets,
         portfolios |-> portfolios \ gone.portfolios,
         portfolios_assets |-> portfolios_assets \ gone.portfolios_assets,
         performances |-> performances \ gone.performances,
         daily_asset_info |-> daily_asset_info \ gone.daily_asset_info],
        Deleted(op,
            [auth_user |-> Cardinality(gone.auth_user),
             custom_users |-> Cardinality(gone.custom_users),
             assets |-> Cardinality(gone.assets),
             portfolios |-> Cardinality(gone.portfolios),
             portfolios_assets |-> Cardinality(gone.portfolios_assets),
             performances |-> Cardinality(gone.performances),
             daily_asset_info |-> Cardinality(gone.daily_asset_info)]))

(* ---------------------- PortfolioAsset's columns ---------------------- *)
\* The date field declared auto_now_add: set when the row is inserted only.
pre_save_auto_now_add(add, held, now) == IF add THEN now ELSE held

\* acquisition_date = DateField(auto_now=True): DateField.pre_save puts the
\* current date on the instance on every save, the inserting one (add) and
\* the updating ones alike, whatever the instance held.
pre_save_acquisition_date(add, held, now) == now

\* The instance after the fields' pre_save ran for a statement.
pre_save(table, row, add) ==
    IF table = "portfolios_assets"
    THEN [row EXCEPT !.acquisition_date =
                         pre_save_acquisition_date(add, @, today)]
    ELSE row

\* The values the statement sends for the instance: get_db_prep_save formats
\* the quantity for its column.
prepared(table, row, add) ==
    IF table = "portfolios_assets"
    THEN [pre_save(table, row, add) EXCEPT !.quantity = format_number(@)]
    ELSE row

\* The quantity cannot be held by the column: the formatting raises
\* decimal.InvalidOperation before any statement is sent.
unformattable(table, row) ==
    table = "portfolios_assets" /\ ~IsNumber(format_number(row.quantity))

(* ------------------------- create, save, delete ----------------------- *)
\* Model.objects.create(...): one INSERT, the key taken from the sequence.
Create(op, table, row) ==
    /\ Inserted < MaxRows
    /\ IF unformattable(table, row)
       THEN /\ last' = Call(op, "InvalidOperation")
            /\ UNCHANGED db
       ELSE Insert(op, table, prepared(table, row, TRUE))
    /\ seq' = IF last'.result = "ok" THEN [seq EXCEPT ![table] = @ + 1] ELSE seq
    /\ made' = IF last'.result = "ok" THEN made + 1 ELSE made
    /\ UNCHANGED <<pending, today>>

\* instance.save() of an instance that holds a key: an UPDATE of the row
\* with that key and, when no row matched (the row was deleted since the
\* instance was read), an INSERT of the instance under the key it holds.
\* No transaction joins the two statements: either the INSERT follows the
\* UPDATE at once, or other callers' statements come between the two.
Save(op, table, row) ==
    /\ IF unformattable(table, row)
       THEN /\ last' = Call(op, "InvalidOperation")
            /\ UNCHANGED <<db, pending>>
       ELSE IF row.id \in Ids(Tables[table])
       THEN /\ Update(op, table, prepared(table, row, FALSE))
            /\ UNCHANGED pending
       ELSE \/ /\ Insert(op, table, prepared(table, row, TRUE))
               /\ UNCHANGED pending
            \/ /\ Cardinality(Writing) < MaxPending
               /\ pending' = pending \cup
                      {InFlight(op, table, "insert", pre_save(table, row, FALSE),
                                NoneCollected, {})}
               /\ last' = Call(op, "no row")
               /\ UNCHANGED db
    /\ UNCHANGED <<seq, made, today, probe>>

\* The INSERT of a save() whose UPDATE matched no row.
InsertAfterUpdate(c) ==
    /\ c \in pending
    /\ c.stage = "insert"
    /\ Insert(c.op, c.table, prepared(c.table, c.row, TRUE))
    /\ pending' = pending \ {c}
    /\ UNCHANGED <<seq, made, today, probe>>

(* ------------------------------ CustomUser ---------------------------- *)
\* CustomUser.objects.create(user_id=who, suscribed=flag)
CreateCustomUser(who, flag) ==
    /\ Create("CustomUser.create", "custom_users",
              [id |-> seq.custom_users, suscribed |-> flag, user |-> who])
    /\ UNCHANGED probe

\* The account an instance holds: the stored one, or, the row gone, the one
\* it was read with.
HeldAccount(u) ==
    IF u \in Ids(custom_users) THEN {Row(custom_users, u).user} ELSE Accounts

\* profile.suscribed = flag; profile.save()
SaveCustomUser(u, flag) ==
    /\ u \in HeldUsers
    /\ \E who \in HeldAccount(u) :
          Save("CustomUser.save", "custom_users",
               [id |-> u, suscribed |-> flag, user |-> who])

\* profile.delete(), first part: the collector reads the portfolios of the
\* profile (they have holdings of their own to take along), outside any
\* transaction; the performances and the holdings need no reading, they are
\* deleted by their foreign key.
CollectCustomUser(u) ==
    /\ u \in HeldUsers
    /\ Cardinality(Deleting) < MaxDeleting
    /\ pending' = pending \cup
           {InFlight("CustomUser.delete", "custom_users", "collected", [id |-> u],
                     [custom_users |-> {u},
                      portfolios |-> Ids(cascade_portfolio_user(portfolios, {u}))],
                     {})}
    /\ last' = Call("CustomUser.delete", "collected")
    /\ UNCHANGED <<db, seq, made, today, probe>>

\* The transaction of a delete that has collected: it deletes the holdings
\* of the portfolios collected and the performances of the profiles
\* collected, by their foreign key, then the portfolios and the profiles
\* collected and the instance itself, by their keys.
DeleteCollected(c) ==
    /\ c \in pending
    /\ c.stage = "collected"
    /\ Delete(c.op,
           [NoRows EXCEPT
               !.auth_user =
                   {r \in auth_user : c.table = "auth_user" /\ r.id = c.row.id},
               !.custom_users =
                   {r \in custom_users : r.id \in c.collected.custom_users},
               !.portfolios =
                   {r \in portfolios : r.id \in c.collected.portfolios},
               !.portfolios_assets =
                   cascade_holding_portfolio(portfolios_assets,
                                             c.collected.portfolios),
               !.performances =
                   cascade_performance_user(performances,
                                            c.collected.custom_users)])
    /\ pending' = pending \ {c}
    /\ UNCHANGED <<seq, made, today, probe>>

\* profile.delete(), second part: its transaction.
DeleteCustomUser(c) ==
    /\ c.op = "CustomUser.delete"
    /\ DeleteCollected(c)

(* --------------------- User (django.contrib.auth) --------------------- *)
\* account.delete() of the User a profile wraps, first part: the collector
\* reads the profile of the account (CustomUser.user cascades, and a profile
\* has rows of its own to take along).  An account without a profile has
\* nothing more to collect.
CollectUser(who) ==
    /\ who \in Accounts
    /\ Cardinality(Deleting) < MaxDeleting
    /\ LET profiles == Ids(cascade_custom_user_user(custom_users, {who}))
       IN  pending' = pending \cup
               {InFlight("User.delete", "auth_user",
                         IF profiles = {} THEN "collected" ELSE "profiles",
                         [id |-> who],
                         [NoneCollected EXCEPT !.custom_users = profiles], {})}
    /\ last' = Call("User.delete", "profiles")
    /\ UNCHANGED <<db, seq, made, today, probe>>

\* account.delete(), second part: the collector reads the portfolios of the
\* profile it has collected.
CollectUserPortfolios(c) ==
    /\ c \in pending
    /\ c.stage = "profiles"
    /\ pending' = (pending \ {c}) \cup
           {[c EXCEPT !.stage = "collected",
                      !.collected.portfolios =
                          Ids(cascade_portfolio_user(portfolios,
                                                     c.collected.custom_users))]}
    /\ last' = Call("User.delete", "collected")
    /\ UNCHANGED <<db, seq, made, today, probe>>

\* account.delete(), third part: its transaction.
DeleteUser(c) ==
    /\ c.op = "User.delete"
    /\ DeleteCollected(c)

(* -------------------------------- Asset ------------------------------- *)
\* Asset.objects.create(name=..., symbol=..., type=...)
CreateAsset ==
    /\ Create("Asset.create", "assets", [id |-> seq.assets])
    /\ UNCHANGED probe

\* asset.name = ...; asset.save()
SaveAsset(a) ==
    /\ a \in HeldAssets
    /\ Save("Asset.save", "assets", [id |-> a])

\* asset.delete(): nothing is read first; one transaction deletes the
\* holdings and the daily infos of the asset by their foreign key, and the
\* asset.
DeleteAsset(a) ==
    /\ a \in HeldAssets
    /\ Delete("Asset.delete",
           [NoRows EXCEPT
               !.assets = {r \in assets : r.id = a},
               !.portfolios_assets = cascade_holding_asset(portfolios_assets, {a}),
               !.daily_asset_info = cascade_info_asset(daily_asset_info, {a})])
    /\ UNCHANGED <<pending, seq, made, today, probe>>

(* ------------------------------ Portfolio ----------------------------- *)
\* Portfolio.objects.create(user_id=u)
CreatePortfolio(u) ==
    /\ Create("Portfolio.create", "portfolios", [id |-> seq.portfolios, user |-> u])
    /\ UNCHANGED probe

\* portfolio.user_id = u; portfolio.save()
SavePortfolio(p, u) ==
    /\ p \in HeldPortfolios
    /\ Save("Portfolio.save", "portfolios", [id |-> p, user |-> u])

\* portfolio.delete(): one transaction deletes the holdings of the
\* portfolio by their foreign key, and the portfolio.
DeletePortfolio(p) ==
    /\ p \in HeldPortfolios
    /\ Delete("Portfolio.delete",
           [NoRows EXCEPT
               !.portfolios = {r \in portfolios : r.id = p},
               !.portfolios_assets =
                   cascade_holding_portfolio(portfolios_assets, {p})])
    /\ UNCHANGED <<pending, seq, made, today, probe>>

(* ---------------------------- PortfolioAsset -------------------------- *)
\* PortfolioAsset(portfolio_id=p, asset_id=a, quantity=q,
\*                acquisition_date=d) inserted under the next key.
InsertPortfolioAsset(p, a, q, d) ==
    /\ seq.portfolios_assets <= MaxHoldings
    /\ Create("PortfolioAsset.create", "portfolios_assets",
              [id |-> seq.portfolios_assets, portfolio |-> p, asset |-> a,
               quantity |-> q, acquisition_date |-> d])

\* PortfolioAsset.objects.create(portfolio_id=p, asset_id=a, quantity=q,
\*                               acquisition_date=d)
CreatePortfolioAsset(p, a, q, d) ==
    /\ InsertPortfolioAsset(p, a, q, d)
    /\ UNCHANGED probe

\* holding.portfolio_id = p; holding.asset_id = a; holding.quantity = q;
\* holding.acquisition_date = d; holding.save()
SavePortfolioAsset(h, p, a, q, d) ==
    /\ h \in HeldHoldings
    /\ Save("PortfolioAsset.save", "portfolios_assets",
            [id |-> h, portfolio |-> p, asset |-> a, quantity |-> q,
             acquisition_date |-> d])

\* holding.delete(): one DELETE statement.
DeletePortfolioAsset(h) ==
    /\ h \in HeldHoldings
    /\ Delete("PortfolioAsset.delete",
           [NoRows EXCEPT
               !.portfolios_assets = {r \in portfolios_assets : r.id = h}])
    /\ UNCHANGED <<pending, seq, made, today, probe>>

\* obj = PortfolioAsset(portfolio_id=p, asset_id=a, quantity=...) was built
\* by the caller and not saved yet; obj.save() inserts it.  The instance
\* keeps the quantity it was given and takes the new row's key.
SaveInstance(p, a) ==
    /\ probe.row = 0
    /\ IsNumber(probe.written)
    /\ InsertPortfolioAsset(p, a, probe.written, today)
    /\ probe' = [probe EXCEPT
                    !.row = IF last'.result = "ok" THEN seq.portfolios_assets ELSE 0]

\* obj.refresh_from_db(): the instance takes the value the column holds,
\* through the backend's converter.
RefreshFromDb ==
    /\ probe.row \in Ids(portfolios_assets)
    /\ probe.read = NoDecimal
    /\ \E got \in from_db_value(probe.engine, Row(portfolios_assets, probe.row).quantity) :
           /\ probe' = [probe EXCEPT !.read = got]
           /\ last' = Call("PortfolioAsset.refresh_from_db",
                           IF IsNumber(got) THEN "ok" ELSE "InvalidOperation")
    /\ UNCHANGED <<db, seq, made, today, pending>>

(* ------------------------------ Performance --------------------------- *)
\* Model.clean_fields(), the first part of full_clean(): the fields whose
\* value fails its field's checks: the related row exists (a query), the
\* value is one of the choices.
performance_clean_fields(row) ==
    {f \in {"user", "days_to_send_email", "periodicity"} :
        \/ f = "user" /\ ~fk_performance_user(row, custom_users)
        \/ f = "days_to_send_email"
               /\ row.days_to_send_email \notin WEEKDAY_CHOICES
        \/ f = "periodicity" /\ row.periodicity \notin PERIODICITY_CHOICES}

\* The second part of full_clean(): the uniqueness constraint is checked by
\* a query of its own, the instance's own row left out, unless one of its
\* fields has failed already, and is reported under '__all__'.
performance_validate_unique(row, failed) ==
    IF /\ "user" \notin failed
       /\ "days_to_send_email" \notin failed
       /\ ~unique_performance({r \in performances : r.id # row.id} \cup {row})
    THEN {"__all__"} ELSE {}

\* The last_time_sent an instance holds: the stored one, or, the row gone,
\* the one it was read with.
HeldSent(f) ==
    IF f \in Ids(performances) THEN {Row(performances, f).last_time_sent}
    ELSE 1..today

\* Performance.objects.create(user_id=u, days_to_send_email=day,
\* periodicity=per): last_time_sent takes its default.  save() validates
\* nothing, and the table has no CHECK constraint for the choices.
CreatePerformance(u, day, per) ==
    /\ seq.performances <= MaxSettings
    /\ Create("Performance.create", "performances",
              [id |-> seq.performances, user |-> u, days_to_send_email |-> day,
               periodicity |-> per, last_time_sent |-> today])
    /\ UNCHANGED probe

\* performance.user_id = u; performance.days_to_send_email = day;
\* performance.periodicity = per; performance.last_time_sent = sent;
\* performance.save()
SavePerformance(f, u, day, per, sent) ==
    /\ f \in HeldPerformances
    /\ Save("Performance.save", "performances",
            [id |-> f, user |-> u, days_to_send_email |-> day,
             periodicity |-> per, last_time_sent |-> sent])

\* instance.full_clean(), as a model form runs it before save(), of a new
\* instance (f = 0) or of one that holds key f; first part, clean_fields():
\* the fields that fail are kept for the ValidationError to come.
CleanFieldsPerformance(f, u, day, per) ==
    /\ f \in {0} \cup HeldPerformances
    /\ f = 0 => Inserted < MaxRows /\ seq.performances <= MaxSettings
    /\ Cardinality(Writing) < MaxPending
    /\ \E sent \in (IF f = 0 THEN {today} ELSE HeldSent(f)) :
          LET row == [id |-> f, user |-> u, days_to_send_email |-> day,
                      periodicity |-> per, last_time_sent |-> sent]
          IN  pending' = pending \cup
                  {InFlight("Performance.save", "performances", "cleaned", row,
                            NoneCollected, performance_clean_fields(row))}
    /\ last' = Call("Performance.full_clean", "cleaned")
    /\ UNCHANGED <<db, seq, made, today, probe>>

\* instance.full_clean(), second part: the uniqueness query; then a
\* ValidationError naming what failed, or the instance goes on to its save().
ValidateUniquePerformance(c) ==
    /\ c \in pending
    /\ c.stage = "cleaned"
    /\ LET errors == c.errors \cup performance_validate_unique(c.row, c.errors)
       IN  IF errors # {}
           THEN /\ last' = Invalid("Performance.full_clean", errors)
                /\ pending' = pending \ {c}
           ELSE /\ last' = Call("Performance.full_clean", "ok")
                /\ pending' = (pending \ {c}) \cup {[c EXCEPT !.stage = "validated"]}
    /\ UNCHANGED <<db, seq, made, today, probe>>

\* The save() of an instance that passed full_clean(): the INSERT of a new
\* instance, the UPDATE of one that holds a key.
SaveCleanPerformance(c) ==
    /\ c \in pending
    /\ c.stage = "validated"
    /\ IF c.row.id = 0
       THEN /\ Insert(c.op, c.table, [c.row EXCEPT !.id = seq.performances])
            /\ seq' = IF last'.result = "ok"
                      THEN [seq EXCEPT !.performances = @ + 1] ELSE seq
            /\ made' = IF last'.result = "ok" THEN made + 1 ELSE made
            /\ pending' = pending \ {c}
       ELSE IF c.row.id \in Ids(performances)
       THEN /\ Update(c.op, c.table, c.row)
            /\ pending' = pending \ {c}
            /\ UNCHANGED <<seq, made>>
       ELSE /\ pending' = (pending \ {c}) \cup {[c EXCEPT !.stage = "insert"]}
            /\ last' = Call(c.op, "no row")
            /\ UNCHANGED <<db, seq, made>>
    /\ UNCHANGED <<today, probe>>

\* performance.delete(): one DELETE statement.
DeletePerformance(f) ==
    /\ f \in HeldPerformances
    /\ Delete("Performance.delete",
           [NoRows EXCEPT !.performances = {r \in performances : r.id = f}])
    /\ UNCHANGED <<pending, seq, made, today, probe>>

(* ----------------------------- DailyAssetInfo ------------------------- *)
\* The timestamp an instance holds: the stored one, or, the row gone, the
\* one it was read with.
HeldTimestamp(i) ==
    IF i \in Ids(daily_asset_info) THEN {Row(daily_asset_info, i).timestamp}
    ELSE 1..today

\* DailyAssetInfo.objects.create(asset_id=a, price=...): timestamp takes
\* its default, the time of creation.
CreateDailyAssetInfo(a) ==
    /\ Create("DailyAssetInfo.create", "daily_asset_info",
              [id |-> seq.daily_asset_info, asset |-> a, timestamp |-> today])
    /\ UNCHANGED probe

\* info.asset_id = a; info.save()
SaveDailyAssetInfo(i, a) ==
    /\ i \in HeldInfos
    /\ \E at \in HeldTimestamp(i) :
          Save("DailyAssetInfo.save", "daily_asset_info",
               [id |-> i, asset |-> a, timestamp |-> at])

\* info.delete(): one DELETE statement.
DeleteDailyAssetInfo(i) ==
    /\ i \in HeldInfos
    /\ Delete("DailyAssetInfo.delete",
           [NoRows EXCEPT !.daily_asset_info = {r \in daily_asset_info : r.id = i}])
    /\ UNCHANGED <<pending, seq, made, today, probe>>

(* -------------------------------- clock ------------------------------- *)
\* Midnight passes.
Tick ==
    /\ today < MaxDay
    /\ today' = today + 1
    /\ last' = Call("tick", "ok")
    /\ UNCHANGED <<db, seq, made, probe, pending>>

(* --------------------------- specifications --------------------------- *)
\* Every account is registered.
Registered == {[id |-> who] : who \in Accounts}

NoProbe == [engine |-> "none", written |-> NoDecimal, row |-> 0, read |-> NoDecimal]

\* The tables after the migrations have run.
Init ==
    /\ auth_user = Registered
    /\ custom_users = {}
    /\ assets = {}
    /\ portfolios = {}
    /\ portfolios_assets = {}
    /\ performances = {}
    /\ daily_asset_info = {}
    /\ seq = [custom_users |-> 1, assets |-> 1, portfolios |-> 1,
              portfolios_assets |-> 1, performances |-> 1,
              daily_asset_info |-> 1]
    /\ made = 0
    /\ today = 1
    /\ last = Call("migrate", "ok")
    /\ probe = NoProbe
    /\ pending = {}

\* One profile exists, made for account 1.
InitProfile ==
    /\ auth_user = Registered
    /\ custom_users = {[id |-> 1, suscribed |-> DefaultSuscribed, user |-> 1]}
    /\ assets = {}
    /\ portfolios = {}
    /\ portfolios_assets = {}
    /\ performances = {}
    /\ daily_asset_info = {}
    /\ seq = [custom_users |-> 2, assets |-> 1, portfolios |-> 1,
              portfolios_assets |-> 1, performances |-> 1,
              daily_asset_info |-> 1]
    /\ made = 0
    /\ today = 1
    /\ last = Call("CustomUser.create", "ok")
    /\ probe = NoProbe
    /\ pending = {}

\* One profile with a portfolio, and two assets, exist.
InitHolding ==
    /\ auth_user = Registered
    /\ custom_users = {[id |-> 1, suscribed |-> DefaultSuscribed, user |-> 1]}
    /\ assets = {[id |-> 1], [id |-> 2]}
    /\ portfolios = {[id |-> 1, user |-> 1]}
    /\ portfolios_assets = {}
    /\ performances = {}
    /\ daily_asset_info = {}
    /\ seq = [custom_users |-> 2, assets |-> 3, portfolios |-> 2,
              portfolios_assets |-> 1, performances |-> 1,
              daily_asset_info |-> 1]
    /\ made = 0
    /\ today = 1
    /\ last = Call("Asset.create", "ok")
    /\ probe = NoProbe
    /\ pending = {}

\* Two profiles, the first with two portfolios, two assets, and three
\* holdings: both assets in the first portfolio, the first asset in the
\* second.
InitCascade ==
    /\ auth_user = Registered
    /\ custom_users = {[id |-> 1, suscribed |-> DefaultSuscribed, user |-> 1],
                       [id |-> 2, suscribed |-> DefaultSuscribed, user |-> 2]}
    /\ assets = {[id |-> 1], [id |-> 2]}
    /\ portfolios = {[id |-> 1, user |-> 1], [id |-> 2, user |-> 1]}
    /\ portfolios_assets =
          {[id |-> 1, portfolio |-> 1, asset |-> 1,
            quantity |-> format_number(Dec(0, <<1, 5>>, -1)), acquisition_date |-> 1],
           [id |-> 2, portfolio |-> 1, asset |-> 2,
            quantity |-> format_number(Dec(0, <<1, 5>>, -1)), acquisition_date |-> 1],
           [id |-> 3, portfolio |-> 2, asset |-> 1,
            quantity |-> format_number(Dec(0, <<1, 5>>, -1)), acquisition_date |-> 1]}
    /\ performances = {}
    /\ daily_asset_info = {}
    /\ seq = [custom_users |-> 3, assets |-> 3, portfolios |-> 3,
              portfolios_assets |-> 4, performances |-> 1,
              daily_asset_info |-> 1]
    /\ made = 0
    /\ today = 1
    /\ last = Call("PortfolioAsset.create", "ok")
    /\ probe = NoProbe
    /\ pending = {}

\* The deletes of accounts and of profiles, each in its parts.
DeleteOwners ==
    \/ \E who \in Accounts : CollectUser(who)
    \/ \E c \in pending : CollectUserPortfolios(c)
    \/ \E c \in pending : DeleteUser(c)
    \/ \E u \in HeldUsers : CollectCustomUser(u)
    \/ \E c \in pending : DeleteCustomUser(c)

\* The rows of the profiles there are and what refers to them: the creates,
\* saves and deletes of every table, but for the making of new profiles.
NextReference ==
    \/ \E r \in custom_users : CollectUser(r.user)
    \/ \E c \in pending : CollectUserPortfolios(c)
    \/ \E c \in pending : DeleteUser(c)
    \/ \E u \in HeldUsers : CollectCustomUser(u)
    \/ \E c \in pending : DeleteCustomUser(c)
    \/ CreateAsset
    \/ \E a \in HeldAssets : SaveAsset(a)
    \/ \E a \in HeldAssets : DeleteAsset(a)
    \/ \E u \in UserKeys : CreatePortfolio(u)
    \/ \E p \in HeldPortfolios, u \in UserKeys : SavePortfolio(p, u)
    \/ \E p \in HeldPortfolios : DeletePortfolio(p)
    \/ \E p \in PortfolioKeys, a \in AssetKeys, q \in ColumnQuantities :
           CreatePortfolioAsset(p, a, q, today)
    \/ \E h \in HeldHoldings, p \in PortfolioKeys, a \in AssetKeys,
          q \in ColumnQuantities : SavePortfolioAsset(h, p, a, q, today)
    \/ \E h \in HeldHoldings : DeletePortfolioAsset(h)
    \/ \E u \in UserKeys : CreatePerformance(u, DefaultDay, DefaultPeriodicity)
    \/ \E f \in HeldPerformances, u \in UserKeys :
           SavePerformance(f, u, DefaultDay, DefaultPeriodicity, today)
    \/ \E f \in HeldPerformances : DeletePerformance(f)
    \/ \E a \in AssetKeys : CreateDailyAssetInfo(a)
    \/ \E i \in HeldInfos, a \in AssetKeys : SaveDailyAssetInfo(i, a)
    \/ \E i \in HeldInfos : DeleteDailyAssetInfo(i)
    \/ \E c \in pending : InsertAfterUpdate(c)

SpecReference == InitProfile /\ [][NextReference]_vars

\* Owners and what goes with them: the deletes of accounts, profiles and
\* portfolios, and the making and moving of profiles and portfolios and the
\* moving of holdings in between.
NextCascade ==
    \/ DeleteOwners
    \/ \E r \in portfolios, u \in HeldUsers : SavePortfolio(r.id, u)
    \/ \E p \in HeldPortfolios : DeletePortfolio(p)
    \/ \E r \in portfolios_assets, p \in HeldPortfolios :
           SavePortfolioAsset(r.id, p, r.asset, r.quantity, today)
    \/ \E h \in HeldHoldings : DeletePortfolioAsset(h)

SpecCascade == InitCascade /\ [][NextCascade]_vars

\* Rows and relations: every table, its creates, saves and deletes.
NextRows ==
    \/ DeleteOwners
    \/ CreateAsset
    \/ \E a \in HeldAssets : SaveAsset(a)
    \/ \E a \in HeldAssets : DeleteAsset(a)
    \/ \E u \in UserKeys : CreatePortfolio(u)
    \/ \E p \in HeldPortfolios, u \in UserKeys : SavePortfolio(p, u)
    \/ \E p \in HeldPortfolios : DeletePortfolio(p)
    \/ \E p \in PortfolioKeys, a \in AssetKeys :
           CreatePortfolioAsset(p, a, Dec(0, <<1, 5>>, -1), today)
    \/ \E h \in HeldHoldings, p \in PortfolioKeys, a \in AssetKeys :
           SavePortfolioAsset(h, p, a, Dec(0, <<1, 5>>, -1), today)
    \/ \E h \in HeldHoldings : DeletePortfolioAsset(h)
    \/ \E u \in UserKeys : CreatePerformance(u, DefaultDay, DefaultPeriodicity)
    \/ \E f \in HeldPerformances, u \in UserKeys :
           SavePerformance(f, u, DefaultDay, DefaultPeriodicity, today)
    \/ \E f \in HeldPerformances : DeletePerformance(f)
    \/ \E a \in AssetKeys : CreateDailyAssetInfo(a)
    \/ \E i \in HeldInfos, a \in AssetKeys : SaveDailyAssetInfo(i, a)
    \/ \E i \in HeldInfos : DeleteDailyAssetInfo(i)
    \/ \E c \in pending : InsertAfterUpdate(c)

Next ==
    \/ \E who \in Accounts : CreateCustomUser(who, DefaultSuscribed)
    \/ NextRows

Spec == InitProfile /\ [][Next]_vars

\* Profiles and what they own: accounts, flags, portfolios and report
\* settings, made, moved and deleted by callers whose calls interleave.
NextProfile ==
    \/ \E who \in Accounts : CreateCustomUser(who, DefaultSuscribed)
    \/ \E r \in custom_users, flag \in BOOLEAN : SaveCustomUser(r.id, flag)
    \/ DeleteOwners
    \/ \E u \in HeldUsers : CreatePortfolio(u)
    \/ \E r \in portfolios, u \in HeldUsers : SavePortfolio(r.id, u)
    \/ \E u \in HeldUsers : CreatePerformance(u, DefaultDay, DefaultPeriodicity)

SpecProfile == Init /\ [][NextProfile]_vars

\* Holdings and their quantities.
NextHolding ==
    \/ \E p \in HeldPortfolios, a \in HeldAssets, q \in Quantities :
           CreatePortfolioAsset(p, a, q, today)
    \/ \E h \in HeldHoldings, p \in HeldPortfolios, a \in HeldAssets,
          q \in Quantities : SavePortfolioAsset(h, p, a, q, today)
    \/ \E h \in HeldHoldings : DeletePortfolioAsset(h)
    \/ \E c \in pending : InsertAfterUpdate(c)

SpecHolding == InitHolding /\ [][NextHolding]_vars

\* Holdings, their acquisition dates and the clock.
NextDate ==
    \/ \E a \in HeldAssets, d \in Days :
           CreatePortfolioAsset(1, a, Dec(0, <<1, 5>>, -1), d)
    \/ \E h \in HeldHoldings, a \in HeldAssets, d \in Days :
           SavePortfolioAsset(h, 1, a, Dec(0, <<1, 5>>, -1), d)
    \/ \E h \in HeldHoldings : DeletePortfolioAsset(h)
    \/ \E c \in pending : InsertAfterUpdate(c)
    \/ Tick

SpecDate == InitHolding /\ [][NextDate]_vars

\* Report settings and their weekdays: plain and validated writes, and the
\* deletion of the profile they belong to.
NextPerformance ==
    \/ \E u \in HeldUsers, day \in {"Monday", "Tuesday"} :
           CreatePerformance(u, day, DefaultPeriodicity)
    \/ \E f \in HeldPerformances, u \in HeldUsers, day \in {"Monday", "Tuesday"} :
           SavePerformance(f, u, day, DefaultPeriodicity, today)
    \/ \E f \in {0} \cup HeldPerformances, u \in HeldUsers,
          day \in {"Monday", "Tuesday"} :
           CleanFieldsPerformance(f, u, day, DefaultPeriodicity)
    \/ \E c \in pending : ValidateUniquePerformance(c)
    \/ \E c \in pending : SaveCleanPerformance(c)
    \/ \E c \in pending : InsertAfterUpdate(c)
    \/ \E f \in HeldPerformances : DeletePerformance(f)
    \/ \E u \in HeldUsers : CollectCustomUser(u)
    \/ \E c \in pending : DeleteCustomUser(c)

SpecPerformance == InitProfile /\ [][NextPerformance]_vars

\* Report settings and their choices: declared and undeclared weekdays and
\* periodicities, written with and without validation, and the report job's
\* write of last_time_sent.
NextChoices ==
    \/ \E u \in UserKeys, x \in SettingInputs : CreatePerformance(u, x[1], x[2])
    \/ \E f \in {0} \cup HeldPerformances, u \in UserKeys, x \in SettingInputs :
           CleanFieldsPerformance(f, u, x[1], x[2])
    \/ \E c \in pending : ValidateUniquePerformance(c)
    \/ \E c \in pending : SaveCleanPerformance(c)
    \/ \E r \in performances, sent \in Days :
           SavePerformance(r.id, r.user, r.days_to_send_email, r.periodicity, sent)

SpecChoices == InitProfile /\ [][NextChoices]_vars

\* Assets and what refers to them: holdings and daily infos.  One profile
\* with two portfolios exists, and an asset, observed once.
InitAsset ==
    /\ auth_user = Registered
    /\ custom_users = {[id |-> 1, suscribed |-> DefaultSuscribed, user |-> 1]}
    /\ assets = {[id |-> 1]}
    /\ portfolios = {[id |-> 1, user |-> 1], [id |-> 2, user |-> 1]}
    /\ portfolios_assets = {}
    /\ performances = {}
    /\ daily_asset_info = {[id |-> 1, asset |-> 1, timestamp |-> 1]}
    /\ seq = [custom_users |-> 2, assets |-> 2, portfolios |-> 3,
              portfolios_assets |-> 1, performances |-> 1,
              daily_asset_info |-> 2]
    /\ made = 0
    /\ today = 1
    /\ last = Call("DailyAssetInfo.create", "ok")
    /\ probe = NoProbe
    /\ pending = {}

NextAsset ==
    \/ CreateAsset
    \/ \E a \in HeldAssets : SaveAsset(a)
    \/ \E a \in HeldAssets : DeleteAsset(a)
    \/ \E p \in HeldPortfolios, a \in AssetKeys :
           CreatePortfolioAsset(p, a, Dec(0, <<1, 5>>, -1), today)
    \/ \E r \in portfolios_assets, p \in HeldPortfolios, a \in AssetKeys :
           SavePortfolioAsset(r.id, p, a, r.quantity, today)
    \/ \E h \in HeldHoldings : DeletePortfolioAsset(h)
    \/ \E a \in AssetKeys : CreateDailyAssetInfo(a)
    \/ \E r \in daily_asset_info, a \in AssetKeys : SaveDailyAssetInfo(r.id, a)
    \/ \E i \in HeldInfos : DeleteDailyAssetInfo(i)
    \/ \E c \in pending : InsertAfterUpdate(c)

SpecAsset == InitAsset /\ [][NextAsset]_vars

\* The quantity column: one profile, one portfolio and one asset exist, the
\* caller holds an unsaved holding with a quantity of some shape, saves it
\* and reads it back.
InitDecimal ==
    /\ auth_user = Registered
    /\ custom_users = {[id |-> 1, suscribed |-> DefaultSuscribed, user |-> 1]}
    /\ assets = {[id |-> 1]}
    /\ portfolios = {[id |-> 1, user |-> 1]}
    /\ portfolios_assets = {}
    /\ performances = {}
    /\ daily_asset_info = {}
    /\ seq = [custom_users |-> 2, assets |-> 2, portfolios |-> 2,
              portfolios_assets |-> 1, performances |-> 1,
              daily_asset_info |-> 1]
    /\ made = 0
    /\ today = 1
    /\ last = Call("Portfolio.create", "ok")
    /\ \E engine \in Backends, q \in DecimalInputs :
          probe = [NoProbe EXCEPT !.engine = engine, !.written = q]
    /\ pending = {}

NextDecimal ==
    \/ SaveInstance(1, 1)
    \/ RefreshFromDb

SpecDecimal == InitDecimal /\ [][NextDecimal]_vars

(* ------------------------------- claims ------------------------------- *)
\* Keys of the rows a step removes from a table.
Gone(before, after) == Ids(before) \ Ids(after)

HasPair(p, a) == \E r \in portfolios_assets : r.portfolio = p /\ r.asset = a

\* Another row than the instance's own has the pair.
OtherHasPair(h, p, a) ==
    \E r \in portfolios_assets : r.id # h /\ r.portfolio = p /\ r.asset = a

HasDay(u, day) ==
    \E r \in performances : r.user = u /\ r.days_to_send_email = day

\* Another row than the instance's own has the user and the weekday.
OtherHasDay(f, u, day) ==
    \E r \in performances :
        r.id # f /\ r.user = u /\ r.days_to_send_email = day

NoDuplicatePair(rows) ==
    \A r1, r2 \in rows :
        r1 # r2 => <<r1.portfolio, r1.asset>> # <<r2.portfolio, r2.asset>>

NoDuplicateDay(rows) ==
    \A r1, r2 \in rows :
        r1 # r2 => <<r1.user, r1.days_to_send_email>> # <<r2.user, r2.days_to_send_email>>

\* The key an INSERT gives the row is not taken.
KeyFree(c) == c.row.id \notin Ids(Tables[c.table])

\* C1: after every create, save and delete of holdings no two stored rows
\* share a (portfolio, asset) pair, and a write that would give a pair a
\* second row, by create(), by the UPDATE of a save() or by the INSERT of
\* the save() of an instance whose row is gone, ends in a uniqueness
\* violation (of the pair or, when another caller has taken the instance's
\* key meanwhile, of the primary key) and leaves the table as it was.
C1_UniqueHolding ==
    /\ NoDuplicatePair(portfolios_assets)
    /\ [][/\ NoDuplicatePair(portfolios_assets')
          /\ last'.op = "PortfolioAsset.create" =>
                \A p \in HeldPortfolios, a \in HeldAssets, q \in Quantities :
                   (HasPair(p, a) /\ CreatePortfolioAsset(p, a, q, today)) =>
                       /\ last'.result = "UniqueViolation"
                       /\ portfolios_assets' = portfolios_assets
          /\ last'.op = "PortfolioAsset.save" =>
                /\ last'.result # "no row" =>
                      \A h \in HeldHoldings, p \in HeldPortfolios, a \in HeldAssets,
                         q \in Quantities :
                         (/\ OtherHasPair(h, p, a)
                          /\ SavePortfolioAsset(h, p, a, q, today)) =>
                             /\ last'.result = "UniqueViolation"
                             /\ portfolios_assets' = portfolios_assets
                /\ \A c \in pending :
                      (/\ c.stage = "insert"
                       /\ HasPair(c.row.portfolio, c.row.asset)
                       /\ InsertAfterUpdate(c)) =>
                          /\ last'.result =
                                 IF KeyFree(c) THEN "UniqueViolation"
                                 ELSE "PrimaryKeyViolation"
                          /\ portfolios_assets' = portfolios_assets]_vars

\* A second insert for a pair was just refused, and the first row is there.
C1_Witness ==
    /\ last.op = "PortfolioAsset.create"
    /\ last.result = "UniqueViolation"
    /\ \E r \in portfolios_assets : r.quantity = Dec(0, <<1, 5, 0, 0, 0, 0, 0, 0, 0>>, -8)

\* C2: no two stored Performance rows share a (user, days_to_send_email)
\* pair; a second row for the same user and weekday is rejected, by the
\* database at the write or by the uniqueness query of the validation
\* before it, and a row for the same user and another weekday is accepted.
C2_UniquePerformance ==
    /\ NoDuplicateDay(performances)
    /\ [][/\ NoDuplicateDay(performances')
          /\ last'.op = "Performance.create" =>
                \A u \in UserKeys, day \in {"Monday", "Tuesday"} :
                   /\ (HasDay(u, day) /\ CreatePerformance(u, day, DefaultPeriodicity)) =>
                          /\ last'.result = "UniqueViolation"
                          /\ performances' = performances
                   /\ (/\ u \in Ids(custom_users)
                       /\ ~HasDay(u, day)
                       /\ CreatePerformance(u, day, DefaultPeriodicity)) =>
                          /\ last'.result = "ok"
                          /\ \E r \in performances' \ performances :
                                r.user = u /\ r.days_to_send_email = day
          /\ last'.op = "Performance.full_clean" =>
                \A c \in pending :
                   (/\ c.stage = "cleaned"
                    /\ OtherHasDay(c.row.id, c.row.user, c.row.days_to_send_email)
                    /\ ValidateUniquePerformance(c)) =>
                       /\ last'.result = "ValidationError"
                       /\ c.errors = {} => last'.errors = {"__all__"}
                       /\ pending' = pending \ {c}
                       /\ performances' = performances
          /\ (last'.op = "Performance.save" /\ last'.result # "no row") =>
                \A f \in HeldPerformances, u \in UserKeys,
                   day \in {"Monday", "Tuesday"} :
                   (/\ OtherHasDay(f, u, day)
                    /\ SavePerformance(f, u, day, DefaultPeriodicity, today)) =>
                       /\ last'.result = "UniqueViolation"
                       /\ performances' = performances
          /\ last'.op = "Performance.save" =>
                \A c \in pending :
                   /\ (/\ c.stage = "validated"
                       /\ c.row.id \in {0} \cup Ids(performances)
                       /\ OtherHasDay(c.row.id, c.row.user, c.row.days_to_send_email)
                       /\ SaveCleanPerformance(c)) =>
                          /\ last'.result = "UniqueViolation"
                          /\ performances' = performances
                   /\ (/\ c.stage = "insert"
                       /\ HasDay(c.row.user, c.row.days_to_send_email)
                       /\ InsertAfterUpdate(c)) =>
                          /\ last'.result =
                                 IF KeyFree(c) THEN "UniqueViolation"
                                 ELSE "PrimaryKeyViolation"
                          /\ performances' = performances]_vars

\* A user holds a Monday and a Tuesday row, and a write that would have
\* given the user a second row for one of the days was just refused.
C2_Witness ==
    /\ last.result = "UniqueViolation"
    /\ last.op \in {"Performance.create", "Performance.save"}
    /\ \E r1, r2 \in performances :
          /\ r1.user = r2.user
          /\ r1.days_to_send_email = "Monday"
          /\ r2.days_to_send_email = "Tuesday"

\* The rows a delete collected are still the ones to take along: every
\* portfolio of the profiles collected was read, and, for the delete of an
\* account, every profile of the account.
ReadStillHolds(c) ==
    /\ \A r \in portfolios :
          r.user \in c.collected.custom_users => r.id \in c.collected.portfolios
    /\ c.table = "auth_user" =>
          \A r \in custom_users :
             r.user = c.row.id => r.id \in c.collected.custom_users

\* No profile collected is stored, and no portfolio or performance row
\* refers to one, after the step.
ProfilesRemoved(c) ==
    \A u \in c.collected.custom_users :
       /\ u \notin Ids(custom_users')
       /\ \A r \in portfolios' : r.user # u
       /\ \A r \in performances' : r.user # u

\* C3 as stated: the delete of a User Profile, by the profile's delete() or
\* by the delete() of the account it wraps, goes through and removes, in
\* the one operation, the profile and every Portfolio and every Performance
\* row whose user it is; no row refers to the profile afterwards.
C3_DeleteAlwaysCascades ==
    [][/\ \A u \in Gone(custom_users, custom_users') :
             /\ \A r \in portfolios' : r.user # u
             /\ \A r \in performances' : r.user # u
       /\ last'.op \in {"CustomUser.delete", "User.delete"} =>
             \A c \in pending :
                (c.stage = "collected" /\ DeleteCollected(c)) =>
                   /\ last'.result = "ok"
                   /\ ProfilesRemoved(c)]_vars

\* C3, amended: the delete of a User Profile, by the profile's delete() or
\* by the delete() of the account it wraps, removes, in the one operation,
\* the profile and every Portfolio and every Performance row whose user it
\* is, unless another caller stored a portfolio of the profile, or a profile
\* of the account, after the delete read them: then, and only then, the
\* delete fails with a foreign-key violation and removes nothing.  No row
\* refers to a profile after the step that removed it.
C3_UserCascade ==
    [][/\ \A u \in Gone(custom_users, custom_users') :
             /\ \A r \in portfolios' : r.user # u
             /\ \A r \in performances' : r.user # u
       /\ last'.op \in {"CustomUser.delete", "User.delete"} =>
             \A c \in pending :
                (c.stage = "collected" /\ DeleteCollected(c)) =>
                   IF ReadStillHolds(c)
                   THEN /\ last'.result = "ok"
                        /\ ProfilesRemoved(c)
                   ELSE /\ last'.result = "ForeignKeyViolation"
                        /\ db' = db]_vars

\* A profile was just deleted together with a portfolio and a performance row.
C3_Witness ==
    /\ last.op = "CustomUser.delete"
    /\ last.deleted.custom_users = 1
    /\ last.deleted.portfolios >= 1
    /\ last.deleted.performances >= 1

\* C4: the delete of an Asset goes through and removes, in the one step,
\* the asset and every holding and every Daily Asset Info row that
\* references it, whatever portfolio the holding is in.
C4_AssetCascade ==
    [][/\ \A a \in Gone(assets, assets') :
             /\ \A r \in portfolios_assets' : r.asset # a
             /\ \A r \in daily_asset_info' : r.asset # a
       /\ last'.op = "Asset.delete" =>
             \A a \in HeldAssets :
                DeleteAsset(a) =>
                   /\ last'.result = "ok"
                   /\ a \notin Ids(assets')
                   /\ \A r \in portfolios_assets' : r.asset # a
                   /\ \A r \in daily_asset_info' : r.asset # a]_vars

\* An asset was just deleted together with its holdings in two portfolios
\* and two observations.
C4_Witness ==
    /\ last.op = "Asset.delete"
    /\ last.deleted.assets = 1
    /\ last.deleted.portfolios_assets >= 2
    /\ last.deleted.daily_asset_info >= 2

\* C5: the delete of a Portfolio goes through and leaves no holding of it,
\* and the step that removes a User Profile removes every portfolio the
\* profile owns and leaves no holding of any of them.
C5_PortfolioCascade ==
    [][/\ \A p \in Gone(portfolios, portfolios') :
             \A r \in portfolios_assets' : r.portfolio # p
       /\ last'.op = "Portfolio.delete" =>
             \A p \in HeldPortfolios :
                DeletePortfolio(p) =>
                   /\ last'.result = "ok"
                   /\ p \notin Ids(portfolios')
                   /\ \A r \in portfolios_assets' : r.portfolio # p
       /\ \A u \in Gone(custom_users, custom_users') :
             \A p \in portfolios :
                p.user = u =>
                   /\ p.id \notin Ids(portfolios')
                   /\ \A r \in portfolios_assets' : r.portfolio # p.id]_vars

\* A profile was just deleted and with it its two portfolios and their
\* three holdings.
C5_Witness ==
    /\ last.op = "CustomUser.delete"
    /\ last.deleted.custom_users = 1
    /\ last.deleted.portfolios = 2
    /\ last.deleted.portfolios_assets = 3

Undeclared(day, per) ==
    day \notin WEEKDAY_CHOICES \/ per \notin PERIODICITY_CHOICES

\* C6 as stated: no Performance row with an undeclared weekday or
\* periodicity is ever stored.
C6_NoUndeclaredChoiceStored ==
    \A r \in performances : ~Undeclared(r.days_to_send_email, r.periodicity)

\* C7: every save of a holding that goes through, the inserting one and the
\* updating ones (the UPDATE, or the INSERT that follows an UPDATE that
\* matched no row), leaves the row with the date of that statement,
\* whatever date the caller put on the instance.
C7_AutoNow ==
    [][last'.result = "ok" =>
          /\ last'.op = "PortfolioAsset.create" =>
                \A a \in HeldAssets, d \in Days :
                   CreatePortfolioAsset(1, a, Dec(0, <<1, 5>>, -1), d) =>
                       Row(portfolios_assets', seq.portfolios_assets).acquisition_date
                           = today
          /\ last'.op = "PortfolioAsset.save" =>
                /\ \A h \in HeldHoldings, a \in HeldAssets, d \in Days :
                      SavePortfolioAsset(h, 1, a, Dec(0, <<1, 5>>, -1), d) =>
                          Row(portfolios_assets', h).acquisition_date = today
                /\ \A c \in pending :
                      (c.stage = "insert" /\ InsertAfterUpdate(c)) =>
                          Row(portfolios_assets', c.row.id).acquisition_date = today]_vars

\* A holding created before another one carries a later date: it was saved
\* again on a later day, and the date is that of the update.
C7_Witness ==
    /\ last.op = "PortfolioAsset.save"
    /\ last.result = "ok"
    /\ \E r1, r2 \in portfolios_assets :
          /\ r1.id < r2.id
          /\ r1.acquisition_date > r2.acquisition_date
          /\ r1.acquisition_date = today

\* The instance's quantity has been written and read back.
WrittenAndRead == last.op = "PortfolioAsset.refresh_from_db"

\* The write of the instance's quantity was just attempted.
WriteAttempted == last.op = "PortfolioAsset.create" /\ IsNumber(probe.written)

RoundTrips ==
    /\ WriteAttempted => last.result = "ok"
    /\ WrittenAndRead =>
          /\ DecEq(probe.read, probe.written)
          /\ probe.read.exp = 0 - decimal_places
    /\ \A r \in portfolios_assets : r.quantity.exp = 0 - decimal_places

\* C8 as stated: a quantity of at most 8 fractional and at most 18
\* significant digits is stored and read back equal, at scale 8.
C8_EighteenSignificantDigits ==
    (/\ FracDigits(probe.written) <= decimal_places
     /\ SigDigits(probe.written) <= max_digits) => RoundTrips

\* C8, amended: a quantity of at most 8 fractional and at most 10 integer
\* digits is stored at scale 8 and read back equal where the column is a
\* NUMERIC(18, 8); where the column is SQLite's 8-byte float, so is one of
\* at most 15 significant digits.
C8_QuantityRoundTrip ==
    (/\ FracDigits(probe.written) <= decimal_places
     /\ IntDigits(probe.written) <= max_digits - decimal_places
     /\ probe.engine = "sqlite" => SigDigits(probe.written) <= 15) => RoundTrips

\* 0.00000001 was written and read back equal on SQLite.
C8_Witness ==
    /\ WrittenAndRead
    /\ probe.engine = "sqlite"
    /\ probe.written = Dec(0, <<1>>, -8)
    /\ DecEq(probe.read, probe.written)

\* Every foreign key of every row names a row that exists.
ReferentialIntegrity ==
    /\ \A r \in portfolios : r.user \in Ids(custom_users)
    /\ \A r \in performances : r.user \in Ids(custom_users)
    /\ \A r \in portfolios_assets :
          r.portfolio \in Ids(portfolios) /\ r.asset \in Ids(assets)
    /\ \A r \in daily_asset_info : r.asset \in Ids(assets)

\* The instance names a parent that is not there.
Dangling(table, row) ==
    CASE table = "portfolios" -> row.user \notin Ids(custom_users)
      [] table = "performances" -> row.user \notin Ids(custom_users)
      [] table = "portfolios_assets" ->
            row.portfolio \notin Ids(portfolios) \/ row.asset \notin Ids(assets)
      [] table = "daily_asset_info" -> row.asset \notin Ids(assets)
      [] OTHER -> FALSE

Refused == last'.result = "ForeignKeyViolation" /\ db' = db

\* A holding write is refused: with `overflow` when the quantity cannot be
\* held by the column, with a foreign-key violation otherwise.
HoldingRefused(q, overflow) ==
    /\ db' = db
    /\ last'.result =
           IF IsNumber(format_number(q)) THEN "ForeignKeyViolation" ELSE overflow

\* Every write of a step that names a missing parent is refused with a
\* foreign-key violation and stores nothing; the save() of an instance whose
\* row is gone may also have sent its UPDATE only, its INSERT still to
\* come.  `taken` is what the INSERT of such a save() gives when another
\* caller has taken its key meanwhile, `overflow` what the write of a
\* holding gives when its quantity cannot be held by the column.
DanglingWritesRefused(taken, overflow) ==
    /\ last'.op = "Portfolio.create" =>
          \A u \in UserKeys \ Ids(custom_users) : CreatePortfolio(u) => Refused
    /\ last'.op = "Performance.create" =>
          \A u \in UserKeys \ Ids(custom_users) :
             CreatePerformance(u, DefaultDay, DefaultPeriodicity) => Refused
    /\ last'.op = "PortfolioAsset.create" =>
          \A p \in PortfolioKeys, a \in AssetKeys, q \in ColumnQuantities :
             (/\ (p \notin Ids(portfolios) \/ a \notin Ids(assets))
              /\ CreatePortfolioAsset(p, a, q, today))
                 => HoldingRefused(q, overflow)
    /\ last'.op = "DailyAssetInfo.create" =>
          \A a \in AssetKeys \ Ids(assets) : CreateDailyAssetInfo(a) => Refused
    /\ last'.result # "no row" =>
          /\ last'.op = "Portfolio.save" =>
                \A u \in UserKeys \ Ids(custom_users), p \in HeldPortfolios :
                   SavePortfolio(p, u) => Refused
          /\ last'.op = "Performance.save" =>
                \A u \in UserKeys \ Ids(custom_users), f \in HeldPerformances :
                   SavePerformance(f, u, DefaultDay, DefaultPeriodicity, today)
                      => Refused
          /\ last'.op = "PortfolioAsset.save" =>
                \A p \in PortfolioKeys, a \in AssetKeys, h \in HeldHoldings,
                   q \in ColumnQuantities :
                   (/\ (p \notin Ids(portfolios) \/ a \notin Ids(assets))
                    /\ SavePortfolioAsset(h, p, a, q, today))
                       => HoldingRefused(q, overflow)
          /\ last'.op = "DailyAssetInfo.save" =>
                \A a \in AssetKeys \ Ids(assets), i \in HeldInfos :
                   SaveDailyAssetInfo(i, a) => Refused
    /\ \A c \in pending :
          (/\ c.stage = "insert"
           /\ Dangling(c.table, c.row)
           /\ InsertAfterUpdate(c)) =>
              /\ db' = db
              /\ last'.result =
                     IF KeyFree(c) THEN "ForeignKeyViolation" ELSE taken

DeleteCalls ==
    {"CustomUser.delete", "Asset.delete", "Portfolio.delete",
     "PortfolioAsset.delete", "Performance.delete", "DailyAssetInfo.delete"}

\* What every delete leaves alone, whichever rows it takes: it adds and
\* changes no row, only a profile's delete removes a profile and only an
\* asset's an asset, the delete of an Asset leaves every User Profile,
\* Portfolio and Performance row, the delete of a User Profile or of a
\* Portfolio every Asset and Daily Asset Info row, and the delete of a
\* holding, a Performance row or a Daily Asset Info row every other row.
LeavesAlone ==
    /\ custom_users' \subseteq custom_users
    /\ assets' \subseteq assets
    /\ portfolios' \subseteq portfolios
    /\ portfolios_assets' \subseteq portfolios_assets
    /\ performances' \subseteq performances
    /\ daily_asset_info' \subseteq daily_asset_info
    /\ Cardinality(Gone(custom_users, custom_users')) <=
          IF last'.op = "CustomUser.delete" THEN 1 ELSE 0
    /\ Cardinality(Gone(assets, assets')) <=
          IF last'.op = "Asset.delete" THEN 1 ELSE 0
    /\ \A r \in performances \ performances' :
          \/ r.user \in Gone(custom_users, custom_users')
          \/ /\ last'.op = "Performance.delete"
             /\ Cardinality(performances \ performances') = 1
    /\ \A r \in portfolios_assets \ portfolios_assets' :
          \/ r.portfolio \in Gone(portfolios, portfolios')
          \/ r.asset \in Gone(assets, assets')
          \/ /\ last'.op = "PortfolioAsset.delete"
             /\ Cardinality(portfolios_assets \ portfolios_assets') = 1
    /\ \A r \in daily_asset_info \ daily_asset_info' :
          \/ r.asset \in Gone(assets, assets')
          \/ /\ last'.op = "DailyAssetInfo.delete"
             /\ Cardinality(daily_asset_info \ daily_asset_info') = 1
    /\ last'.op = "Asset.delete" =>
          UNCHANGED <<custom_users, portfolios, performances>>
    /\ last'.op \in {"CustomUser.delete", "Portfolio.delete"} =>
          UNCHANGED <<assets, daily_asset_info>>
    /\ last'.op = "Portfolio.delete" => UNCHANGED <<custom_users, performances>>
    /\ last'.op = "PortfolioAsset.delete" =>
          UNCHANGED <<custom_users, assets, portfolios, performances,
                      daily_asset_info>>
    /\ last'.op = "Performance.delete" =>
          UNCHANGED <<custom_users, assets, portfolios, portfolios_assets,
                      daily_asset_info>>
    /\ last'.op = "DailyAssetInfo.delete" =>
          UNCHANGED <<custom_users, assets, portfolios, portfolios_assets,
                      performances>>

\* C10 as stated: a delete removes the deleted row and the rows that
\* reference it, directly or through the declared foreign keys, and nothing
\* else; a portfolio goes only with its own delete or with its profile.
C10_DeleteFrame ==
    [][last'.op \in DeleteCalls =>
          /\ LeavesAlone
          /\ \A r \in portfolios \ portfolios' :
                \/ r.user \in Gone(custom_users, custom_users')
                \/ /\ last'.op = "Portfolio.delete"
                   /\ Cardinality(portfolios \ portfolios') = 1]_vars

====
